---- MODULE Spec2Model ----
(***************************************************************************)
(* DriveAhead request-resilience layer:                                    *)
(*   website/cache_manager.py  AdvancedCacheManager (memory tier + SQLite) *)
(*   website/api_optimizer.py  CircuitBreaker, RateLimiter,                *)
(*                             ConnectionPoolManager                       *)
(*                                                                         *)
(* Time is the value of time.time(), counted in whole ticks.  One module,  *)
(* several specifications: each one drives one component and leaves the    *)
(* variables of the others unchanged.                                      *)
(***************************************************************************)
EXTENDS Integers, Sequences, FiniteSets, TLC

VARIABLES
    now,            \* time.time()
    \* ---- AdvancedCacheManager
    memory_cache,   \* self.memory_cache: digest -> [data, expires_at, created_at]
    cache_entries,  \* table cache_entries: digest -> row
    cache_stats,    \* self.cache_stats
    last,           \* history: the last cache operation and what it returned
    \* ---- CircuitBreaker
    failure_count,
    last_failure_time,  \* <<>> is None, <<t>> is the time t
    state,
    \* ---- RateLimiter
    tokens,
    last_refill,
    lock,           \* self.lock: <<t>> when thread t holds it, <<>> when free
    \* ---- the calling threads
    pc,             \* thread -> where it is in its call
    call,           \* thread -> the call it is in (idle: the call it last made)
    tmp,            \* thread -> the failure_count it read for `+= 1`
    asleep,         \* thread -> when its time.sleep began (-1: not asleep)
    returned,       \* thread -> what its last call returned
    obs,            \* history: thread -> the breaker as its breaker call found it
    trial,          \* history: thread -> admitted on the HALF_OPEN path, outcome not yet recorded
    streak,         \* history: record_failure calls in a row since CLOSED with count 0
    entered,        \* thread -> `now` of the wait_if_needed it is in: the time it read
    slept,          \* history: thread -> how long the wait_if_needed it is in slept (-1: not)
    done,           \* history: wait_if_needed bodies completed since construction
    \* ---- ConnectionPoolManager
    pool_stats,     \* self.pool_stats, the counters
    outcome,        \* thread -> how self.session.request answered its make_request
    log,            \* history: thread -> the counters its make_request wrote and the
                    \* breaker calls it made, in order
    decodings,      \* how response.json() can end with this upstream and this
                    \* installation of requests; fixed for a run
    \* ---- make_batch_requests
    batch,          \* where the call is: "idle", "collecting", "returned", "raised"
    batch_start,    \* when as_completed began to wait
    queued,         \* the futures no worker has taken up yet
    collected,      \* the futures as_completed has yielded
    results         \* the list being built

cacheVars == <<memory_cache, cache_entries, cache_stats, last>>
breakerVars == <<failure_count, last_failure_time, state>>
limiterVars == <<tokens, last_refill, lock>>
threadVars == <<pc, call, tmp, asleep, returned, obs, trial>>
limiterHist == <<entered, slept, done>>
requestVars == <<pool_stats, outcome, log, decodings>>
batchVars == <<batch, batch_start, queued, collected, results>>
vars == <<now, cacheVars, breakerVars, limiterVars, threadVars, streak, limiterHist,
          requestVars, batchVars>>

\* what the steps of one component leave alone
besidesCache == <<now, breakerVars, limiterVars, threadVars, streak, limiterHist,
                 requestVars, batchVars>>
besidesBreaker == <<now, cacheVars, limiterVars, limiterHist, requestVars, batchVars>>
besidesLimiter == <<now, cacheVars, breakerVars, streak, requestVars, batchVars>>
besidesThreads == <<now, cacheVars, breakerVars, limiterVars, streak, limiterHist, decodings>>
besidesRequest == <<now, cacheVars, breakerVars, limiterVars, streak, limiterHist, batchVars,
                   decodings>>
besidesBatch == <<now, cacheVars, breakerVars, limiterVars, threadVars, streak, limiterHist,
                 requestVars>>
besidesGets == <<now, breakerVars, limiterVars, streak, limiterHist, requestVars, batchVars>>
besidesClock == <<cacheVars, breakerVars, limiterVars, threadVars, streak, limiterHist,
                 requestVars, batchVars>>

----------------------------------------------------------------------------
(* Bounds of the model *)

MaxTime == 2        \* the clock of the cache specification stops here
StatCap == 1        \* no hit or miss counter of the cache is driven past this
EvictCap == 2       \* nor its eviction counter past this
MaxClock == 3       \* the clock of the other specifications stops here
MaxFailures == 3    \* no failure is recorded once failure_count is this
batch_timeout == 2  \* the timeout of as_completed, in ticks
NThreads == 2       \* worker threads

\* constructor arguments of AdvancedCacheManager (the source's defaults are
\* 1000 items and 300 s; the model runs a small instance)
max_memory_items == 1
default_ttl == 1
enable_compression == TRUE

CompressThreshold == 1024

\* constructor arguments of CircuitBreaker and RateLimiter (the source's
\* defaults are 5 failures, 60 s, 100 requests per 60 s)
failure_threshold == 2
reset_timeout == 1
max_requests == 2
window_seconds == 4

Threads == 1..NThreads
\* self.lock held by nobody; <<t>> when thread t holds it
Unlocked == <<>>

----------------------------------------------------------------------------
(* Inputs *)

None == "None"

Keys == {"r1", "r2"}

\* chars of a key, for the substring test of clear(pattern)
KeyChars(k) ==
    CASE k = "r1" -> <<"r", "1">>
      [] k = "r2" -> <<"r", "2">>

\* "a": a small dict; "rnd": 3000 random bytes, which gzip does not shrink;
\* "fn": a lambda, which pickle refuses
Values == {"a", "rnd"}
Unpicklable == {"fn"}

\* an optional ttl: <<>> is ttl=None, which set replaces by default_ttl (the
\* positive ttl of the model); <<0>> is ttl=0, never expire
TTLs == {<<>>, <<0>>}

----------------------------------------------------------------------------
(* Key normalisation, serialisation, compression *)

\* hashlib.md5(key.encode('utf-8')).hexdigest() of the model's keys
_generate_key(key) ==
    CASE key = "r1" -> "7c92cf1eee8d99cc85f8355a3d6e4b86"
      [] key = "r2" -> "d279186428a75016b17e4df5ea43d080"

Digests == {_generate_key(k) : k \in Keys}

\* len(pickle.dumps(v)) and len(gzip.compress(pickle.dumps(v)))
PickledLen(v) ==
    CASE v = "a" -> 37
      [] v = "rnd" -> 3018

GzipLen(v) ==
    CASE v = "a" -> 53
      [] v = "rnd" -> 3041

\* pickle.dumps(value): raises for a value pickle cannot serialise
CanPickle(value) == value \notin Unpicklable

pickle_dumps(value) == [fmt |-> "pickle", obj |-> value, len |-> PickledLen(value)]

gzip_compress(data) == [fmt |-> "gzip", obj |-> data.obj, len |-> GzipLen(data.obj)]

_compress_data(data) ==
    IF enable_compression /\ data.len > CompressThreshold
    THEN gzip_compress(data)
    ELSE data

\* gzip.decompress raises on bytes that are no gzip stream;
\* pickle.loads raises on bytes that are no pickle
Raises == [fmt |-> "raise", obj |-> None, len |-> 0]

gzip_decompress(data) ==
    IF data.fmt = "gzip"
    THEN [fmt |-> "pickle", obj |-> data.obj, len |-> PickledLen(data.obj)]
    ELSE Raises

_decompress_data(data, is_compressed) ==
    IF is_compressed /\ enable_compression
    THEN gzip_decompress(data)
    ELSE data

\* pickle.loads(data): the object, or Raises
pickle_loads(data) ==
    IF data.fmt = "pickle" THEN data ELSE Raises

----------------------------------------------------------------------------
(* Dictionaries *)

Put(d, k, e) == [x \in DOMAIN d \cup {k} |-> IF x = k THEN e ELSE d[x]]

Drop(d, ks) == [x \in DOMAIN d \ ks |-> d[x]]

Empty == [x \in {} |-> None]

Size(d) == Cardinality(DOMAIN d)

Bump(stats, field, n) == [stats EXCEPT ![field] = @ + n]

\* variant: >= where the code has >
ExpiredOrDue(e, t) == e.expires_at > 0 /\ t >= e.expires_at

\* entry['expires_at'] > 0 and time.time() > entry['expires_at']
Expired(e, t) == e.expires_at > 0 /\ t > e.expires_at

----------------------------------------------------------------------------
(* Substring tests of clear(pattern) *)

DigestChars(d) ==
    CASE d = "7c92cf1eee8d99cc85f8355a3d6e4b86" ->
           <<"7", "c", "9", "2", "c", "f", "1", "e", "e", "e", "8", "d", "9", "9", "c", "c",
             "8", "5", "f", "8", "3", "5", "5", "a", "3", "d", "6", "e", "4", "b", "8", "6">>
      [] d = "d279186428a75016b17e4df5ea43d080" ->
           <<"d", "2", "7", "9", "1", "8", "6", "4", "2", "8", "a", "7", "5", "0", "1", "6",
             "b", "1", "7", "e", "4", "d", "f", "5", "e", "a", "4", "3", "d", "0", "8", "0">>

\* clear's patterns, each as its chars (clear_all is clear with pattern None)
Patterns == {<<"r">>, <<"7", "c">>, <<"D", "2">>}

\* a pattern as one string
PatternName(pattern) ==
    CASE pattern = <<"r">> -> "r"
      [] pattern = <<"7", "c">> -> "7c"
      [] pattern = <<"D", "2">> -> "D2"

\* Python's `pattern in key`
Contains(pat, s) ==
    \E i \in 1..(Len(s) - Len(pat) + 1) : SubSeq(s, i, i + Len(pat) - 1) = pat

\* SQLite folds ASCII case in LIKE
Lower(c) ==
    CASE c = "D" -> "d"
      [] OTHER -> c

\* key LIKE '%pattern%' (the model's patterns hold no % or _)
Like(pat, s) ==
    Contains([i \in 1..Len(pat) |-> Lower(pat[i])], [i \in 1..Len(s) |-> Lower(s[i])])

----------------------------------------------------------------------------
(* AdvancedCacheManager.  Every operation holds self.lock for its whole     *)
(* body, so each is one step.  db_ok = FALSE: the SQLite statement raises   *)
(* and its transaction leaves the table as it was.  The columns           *)
(* created_at, access_count and last_accessed of the table are written and *)
(* never read; they are not in the rows.                                   *)

\* op: the operation; key: its key ("*" for clear(), the pattern for
\* clear(pattern)); ret: what it returned (n: clear's count); follows, stale
\* and removed: what Follows, Stale and Removed said when the operation began;
\* err: the exception it caught ("-": none)
CacheOp(op, key, ret, n, follows, stale, removed, err) ==
    [op |-> op, key |-> key, ret |-> ret, n |-> n, follows |-> follows, stale |-> stale,
     removed |-> removed, err |-> err]

\* variant: an except clause that lets the exception through
propagate == "raised"

\* what the except clauses of set and get return
set_except == "False"
get_except == None

WithinCap(stats) ==
    \A f \in DOMAIN stats : stats[f] <= IF f = "evictions" THEN EvictCap ELSE StatCap

\* variant: the entry is stored whatever the size of the tier
StoreInMemoryAlways(mem, cache_key, entry) == Put(mem, cache_key, entry)

\* if len(self.memory_cache) < self.max_memory_items: self.memory_cache[cache_key] = {...}
StoreInMemory(mem, cache_key, entry) ==
    IF Size(mem) < max_memory_items THEN Put(mem, cache_key, entry) ELSE mem

set(key, value, ttl, db_ok) ==
    LET ttl_eff == IF ttl = <<>> THEN default_ttl ELSE ttl[1]
        cache_key == _generate_key(key)
        expires_at == IF ttl_eff > 0 THEN now + ttl_eff ELSE 0
    IN  IF ~CanPickle(value)
        THEN /\ last' = CacheOp("set", key, set_except, 0, "-", FALSE, FALSE, "serialization")
             /\ UNCHANGED <<memory_cache, cache_entries, cache_stats>>
        ELSE LET serialized_data == pickle_dumps(value)
                 compressed_data == _compress_data(serialized_data)
                 is_compressed == compressed_data.len < serialized_data.len
             IN  /\ memory_cache' = StoreInMemory(memory_cache, cache_key,
                        [data |-> value, expires_at |-> expires_at, created_at |-> now])
                 /\ IF db_ok
                    THEN /\ cache_entries' = Put(cache_entries, cache_key,
                                [data |-> compressed_data, expires_at |-> expires_at,
                                 compressed |-> is_compressed])
                         /\ last' = CacheOp("set", key, "True", 0, "-", FALSE, FALSE, "-")
                    ELSE /\ UNCHANGED cache_entries
                         /\ last' = CacheOp("set", key, set_except, 0, "-", FALSE, FALSE, "io")
                 /\ UNCHANGED cache_stats

\* the value an immediately preceding successful set of this key was given
\* (the object whose bytes it wrote to the table), while that entry has not
\* expired; "-" when get does not follow such a set
Follows(key) ==
    IF /\ last.op = "set" /\ last.ret = "True" /\ last.key = key
       /\ ~Expired(cache_entries[_generate_key(key)], now)
    THEN cache_entries[_generate_key(key)].data.obj
    ELSE "-"

\* the row the last successful set of this key wrote is there and its
\* expires_at has passed
Stale(key) ==
    /\ _generate_key(key) \in DOMAIN cache_entries
    /\ Expired(cache_entries[_generate_key(key)], now)

\* the call before was a removal that covers this key and met no error:
\* delete of the key, clear(), or clear(pattern) with the pattern a substring
\* of the key as the caller writes it
Removed(key) ==
    /\ last.err = "-"
    /\ \/ last.op = "delete" /\ last.key = key
       \/ last.op = "clear" /\ last.key = "*"
       \/ /\ last.op = "clear"
          /\ \E pattern \in Patterns :
                PatternName(pattern) = last.key /\ Contains(pattern, KeyChars(key))

GetResult(key, ret, mem, db, stats, err) ==
    /\ WithinCap(stats)
    /\ memory_cache' = mem
    /\ cache_entries' = db
    /\ cache_stats' = stats
    /\ last' = CacheOp("get", key, ret, 0, Follows(key), Stale(key), Removed(key), err)

\* what the block under self.lock leaves: the value it returns, both tiers,
\* the counters, the error it met, and fell: whether it ended without a
\* return, which leaves the miss to the increment after the block
Locked(ret, mem, db, stats, err, fell) ==
    [ret |-> ret, mem |-> mem, db |-> db, stats |-> stats, err |-> err, fell |-> fell]

get_locked(key, db_ok) ==
    LET cache_key == _generate_key(key)
        in_memory == cache_key \in DOMAIN memory_cache
    IN  IF in_memory /\ ~Expired(memory_cache[cache_key], now)
        THEN Locked(memory_cache[cache_key].data, memory_cache, cache_entries,
                    Bump(Bump(cache_stats, "hits", 1), "memory_hits", 1), "-", FALSE)
        ELSE LET mem1 == IF in_memory THEN Drop(memory_cache, {cache_key}) ELSE memory_cache
             IN  IF ~db_ok
                 THEN Locked(get_except, mem1, cache_entries, cache_stats, "io", TRUE)
                 ELSE IF cache_key \notin DOMAIN cache_entries
                 THEN Locked(None, mem1, cache_entries, cache_stats, "-", TRUE)
                 ELSE LET row == cache_entries[cache_key]
                          value == pickle_loads(_decompress_data(row.data, row.compressed))
                      IN  IF Expired(row, now)
                          THEN Locked(None, mem1, Drop(cache_entries, {cache_key}),
                                      Bump(cache_stats, "misses", 1), "-", FALSE)
                          ELSE IF value = Raises
                          THEN Locked(get_except, mem1, cache_entries, cache_stats,
                                      "serialization", TRUE)
                          ELSE Locked(value.obj,
                                   StoreInMemory(mem1, cache_key,
                                       [data |-> value.obj, expires_at |-> row.expires_at,
                                        created_at |-> now]),
                                   cache_entries,
                                   Bump(Bump(cache_stats, "hits", 1), "disk_hits", 1), "-",
                                   FALSE)

\* get called with no other call of the cache in progress: the block and
\* the increment after it
get(key, db_ok) ==
    LET block == get_locked(key, db_ok)
    IN  GetResult(key, block.ret, block.mem, block.db,
                  IF block.fell THEN Bump(block.stats, "misses", 1) ELSE block.stats,
                  block.err)

delete(key, db_ok) ==
    LET cache_key == _generate_key(key)
    IN  /\ memory_cache' = Drop(memory_cache, {cache_key})
        /\ IF db_ok
           THEN /\ cache_entries' = Drop(cache_entries, {cache_key})
                /\ last' = CacheOp("delete", key,
                       IF cache_key \in DOMAIN cache_entries THEN "True" ELSE "False",
                       0, "-", FALSE, FALSE, "-")
           ELSE /\ UNCHANGED cache_entries
                /\ last' = CacheOp("delete", key, "False", 0, "-", FALSE, FALSE, "io")
        /\ UNCHANGED cache_stats

\* variant: clear() that empties the memory tier only
clear_memory_only(db_ok) ==
    /\ memory_cache' = Empty
    /\ last' = CacheOp("clear", "*", "-", 0, "-", FALSE, FALSE, "-")
    /\ UNCHANGED <<cache_entries, cache_stats>>

\* whether the call before was clear() too, and whether that one met an error
AfterClear ==
    IF last.op = "clear" /\ last.key = "*"
    THEN IF last.err = "-" THEN "clear" ELSE "clear_failed"
    ELSE "-"

\* clear(): pattern is None
clear_all(db_ok) ==
    /\ memory_cache' = Empty
    /\ IF db_ok
       THEN /\ cache_entries' = Empty
            /\ last' = CacheOp("clear", "*", "-", Size(cache_entries), AfterClear, FALSE,
                               FALSE, "-")
       ELSE /\ UNCHANGED cache_entries
            /\ last' = CacheOp("clear", "*", "-", 0, AfterClear, FALSE, FALSE, "io")
    /\ UNCHANGED cache_stats

\* clear(pattern)
clear(pattern, db_ok) ==
    LET keys_to_delete == {d \in DOMAIN memory_cache : Contains(pattern, DigestChars(d))}
        rows == {d \in DOMAIN cache_entries : Like(pattern, DigestChars(d))}
    IN  /\ memory_cache' = Drop(memory_cache, keys_to_delete)
        /\ IF db_ok
           THEN /\ cache_entries' = Drop(cache_entries, rows)
                /\ last' = CacheOp("clear", PatternName(pattern), "-",
                       Cardinality(keys_to_delete) + Cardinality(rows), "-", FALSE,
                       FALSE, "-")
           ELSE /\ UNCHANGED cache_entries
                /\ last' = CacheOp("clear", PatternName(pattern), "-",
                       Cardinality(keys_to_delete), "-", FALSE, FALSE, "io")
        /\ UNCHANGED cache_stats

\* the background worker's first call
_cleanup_expired_entries(db_ok) ==
    LET current_time == now
        expired_keys == {d \in DOMAIN memory_cache :
                            Expired(memory_cache[d], current_time)}
        rows == {d \in DOMAIN cache_entries :
                    /\ cache_entries[d].expires_at > 0
                    /\ cache_entries[d].expires_at < current_time}
        stats == Bump(cache_stats, "evictions",
                      Cardinality(expired_keys) + IF db_ok THEN Cardinality(rows) ELSE 0)
    IN  /\ WithinCap(stats)
        /\ memory_cache' = Drop(memory_cache, expired_keys)
        /\ cache_entries' = IF db_ok THEN Drop(cache_entries, rows) ELSE cache_entries
        /\ cache_stats' = stats
        /\ last' = CacheOp("sweep", "-", "-", 0, "-", FALSE, FALSE,
                           IF db_ok THEN "-" ELSE "io")

\* the background worker's second call.  Entries of equal created_at are
\* ordered as the dict iterates them; the model lets any of them go first.
_optimize_memory_cache ==
    IF Size(memory_cache) <= max_memory_items
    THEN /\ last' = CacheOp("optimize", "-", "-", 0, "-", FALSE, FALSE, "-")
         /\ UNCHANGED <<memory_cache, cache_entries, cache_stats>>
    ELSE \E removed \in SUBSET DOMAIN memory_cache :
            /\ Cardinality(removed) = Size(memory_cache) \div 5
            /\ \A r \in removed, s \in DOMAIN memory_cache \ removed :
                  memory_cache[r].created_at <= memory_cache[s].created_at
            /\ WithinCap(Bump(cache_stats, "evictions", Cardinality(removed)))
            /\ memory_cache' = Drop(memory_cache, removed)
            /\ cache_stats' = Bump(cache_stats, "evictions", Cardinality(removed))
            /\ last' = CacheOp("optimize", "-", "-", 0, "-", FALSE, FALSE, "-")
            /\ UNCHANGED cache_entries

----------------------------------------------------------------------------
(* Threads.  A thread is idle or inside one call; the call is a method of   *)
(* the breaker or of the limiter made directly, or make_request, which     *)
(* makes them in turn.  Each step is one read or write of shared state, so *)
(* the steps of threads that run at once interleave as the interpreter     *)
(* lets them.                                                              *)

Goto(t, where) == pc' = [pc EXCEPT ![t] = where]

\* the call returns r to the thread's caller
Return(t, r) ==
    /\ pc' = [pc EXCEPT ![t] = "idle"]
    /\ returned' = [returned EXCEPT ![t] = r]

NoObs == [state |-> "-", due |-> FALSE]

\* the breaker as a call arriving now finds it
Observed ==
    [state |-> state,
     due |-> last_failure_time # <<>> /\ now - last_failure_time[1] > reset_timeout]

Begin(t, name, where) ==
    /\ pc[t] = "idle"
    /\ pc' = [pc EXCEPT ![t] = where]
    /\ call' = [call EXCEPT ![t] = name]
    /\ returned' = [returned EXCEPT ![t] = "-"]

----------------------------------------------------------------------------
(* CircuitBreaker *)

\* variant: the timeout compared one second late
TimeoutElapsedLate(t_now, last_time) == (t_now - last_time[1]) > reset_timeout + 1

\* (time.time() - self.last_failure_time) > self.reset_timeout
TimeoutElapsed(t_now, last_time) == (t_now - last_time[1]) > reset_timeout

\* variant: > where the code has >=
ThresholdExceeded(count) == count > failure_threshold

\* self.failure_count >= self.failure_threshold
ThresholdReached(count) == count >= failure_threshold

\* variant: a gate that lets make_request go on whatever can_execute said
AfterGateAlways(t, allowed, on_trial) ==
    /\ trial' = [trial EXCEPT ![t] = allowed /\ on_trial]
    /\ IF call[t] = "can_execute"
       THEN Return(t, IF allowed THEN "True" ELSE "False")
       ELSE Goto(t, "rl_acquire") /\ UNCHANGED returned

\* can_execute returned `allowed`: to the direct caller, or to make_request,
\* which raises when it is false and goes on to the rate limiter otherwise
AfterGate(t, allowed, on_trial) ==
    /\ trial' = [trial EXCEPT ![t] = allowed /\ on_trial]
    /\ IF call[t] = "can_execute"
       THEN Return(t, IF allowed THEN "True" ELSE "False")
       ELSE IF allowed
            THEN Goto(t, "rl_acquire") /\ UNCHANGED returned
            ELSE Return(t, "circuit_open")

\* can_execute: the tests of self.state and of the time
ce_test(t) ==
    /\ pc[t] = "ce_test"
    /\ obs' = [obs EXCEPT ![t] = Observed]
    /\ IF state = "CLOSED"
       THEN AfterGate(t, TRUE, FALSE)
       ELSE IF state = "OPEN"
       THEN IF TimeoutElapsed(now, last_failure_time)
            THEN Goto(t, "ce_half") /\ UNCHANGED <<returned, trial>>
            ELSE AfterGate(t, FALSE, FALSE)
       ELSE IF state = "HALF_OPEN"
       THEN AfterGate(t, TRUE, TRUE)
       ELSE AfterGate(t, FALSE, FALSE)
    /\ UNCHANGED <<breakerVars, streak, call, tmp, asleep>>
    /\ UNCHANGED besidesBreaker

\* can_execute: self.state = "HALF_OPEN"; return True
ce_half(t) ==
    /\ pc[t] = "ce_half"
    /\ state' = "HALF_OPEN"
    /\ streak' = -1
    /\ AfterGate(t, TRUE, TRUE)
    /\ UNCHANGED <<failure_count, last_failure_time, call, tmp, asleep, obs>>
    /\ UNCHANGED besidesBreaker

\* record_success returns: to the direct caller, or to make_request, which
\* goes on to build the APIResponse
AfterRecord(t) ==
    /\ trial' = [trial EXCEPT ![t] = FALSE]
    /\ IF call[t] = "make_request"
       THEN Goto(t, "json") /\ UNCHANGED returned
       ELSE Return(t, "None")

\* variant: record_success without its HALF_OPEN branch
rs_test_no_close(t) ==
    /\ pc[t] = "rs_test"
    /\ obs' = [obs EXCEPT ![t] = Observed]
    /\ Goto(t, "rs_reset")
    /\ UNCHANGED <<breakerVars, streak, call, tmp, asleep, returned, trial>>
    /\ UNCHANGED besidesBreaker

\* record_success: if self.state == "HALF_OPEN"
rs_test(t) ==
    /\ pc[t] = "rs_test"
    /\ obs' = [obs EXCEPT ![t] = Observed]
    /\ Goto(t, IF state = "HALF_OPEN" THEN "rs_close" ELSE "rs_reset")
    /\ UNCHANGED <<breakerVars, streak, call, tmp, asleep, returned, trial>>
    /\ UNCHANGED besidesBreaker

\* record_success: self.state = "CLOSED"
rs_close(t) ==
    /\ pc[t] = "rs_close"
    /\ state' = "CLOSED"
    /\ Goto(t, "rs_reset")
    /\ UNCHANGED <<failure_count, last_failure_time, streak, call, tmp, asleep, returned, obs, trial>>
    /\ UNCHANGED besidesBreaker

\* variant: record_success that leaves failure_count as it is
rs_reset_keeps_count(t) ==
    /\ pc[t] = "rs_reset"
    /\ AfterRecord(t)
    /\ UNCHANGED <<failure_count, last_failure_time, state, streak, call, tmp, asleep, obs>>
    /\ UNCHANGED besidesBreaker

\* record_success: self.failure_count = 0
rs_reset(t) ==
    /\ pc[t] = "rs_reset"
    /\ failure_count' = 0
    /\ streak' = IF state = "CLOSED" THEN 0 ELSE -1
    /\ AfterRecord(t)
    /\ UNCHANGED <<last_failure_time, state, call, tmp, asleep, obs>>
    /\ UNCHANGED besidesBreaker

\* record_failure: self.failure_count += 1, the read
rf_read(t) ==
    /\ pc[t] = "rf_read"
    /\ failure_count <= MaxFailures
    /\ obs' = [obs EXCEPT ![t] = Observed]
    /\ tmp' = [tmp EXCEPT ![t] = failure_count]
    /\ streak' = IF streak >= 0 THEN streak + 1 ELSE streak
    /\ Goto(t, "rf_write")
    /\ UNCHANGED <<breakerVars, call, asleep, returned, trial>>
    /\ UNCHANGED besidesBreaker

\* record_failure: self.failure_count += 1, the write
rf_write(t) ==
    /\ pc[t] = "rf_write"
    /\ failure_count' = tmp[t] + 1
    /\ tmp' = [tmp EXCEPT ![t] = 0]
    /\ Goto(t, "rf_stamp")
    /\ UNCHANGED <<last_failure_time, state, streak, call, asleep, returned, obs, trial>>
    /\ UNCHANGED besidesBreaker

\* record_failure: self.last_failure_time = time.time()
rf_stamp(t) ==
    /\ pc[t] = "rf_stamp"
    /\ last_failure_time' = <<now>>
    /\ Goto(t, "rf_test")
    /\ UNCHANGED <<failure_count, state, streak, call, tmp, asleep, returned, obs, trial>>
    /\ UNCHANGED besidesBreaker

\* record_failure returns: to the direct caller, or to make_request, which
\* goes on to build the APIResponse of an error status, or re-raises at the
\* end of its except branch
AfterFailure(t) ==
    /\ trial' = [trial EXCEPT ![t] = FALSE]
    /\ IF call[t] # "make_request"
       THEN Return(t, "None")
       ELSE IF outcome[t] = "http_error"
            THEN Goto(t, "json") /\ UNCHANGED returned
            ELSE Return(t, "raised")

\* record_failure: if self.failure_count >= self.failure_threshold
rf_test(t) ==
    /\ pc[t] = "rf_test"
    /\ IF ThresholdReached(failure_count)
       THEN Goto(t, "rf_open") /\ UNCHANGED <<returned, trial>>
       ELSE AfterFailure(t)
    /\ UNCHANGED <<breakerVars, streak, call, tmp, asleep, obs>>
    /\ UNCHANGED besidesBreaker

\* record_failure: self.state = "OPEN"
rf_open(t) ==
    /\ pc[t] = "rf_open"
    /\ state' = "OPEN"
    /\ AfterFailure(t)
    /\ UNCHANGED <<failure_count, last_failure_time, streak, call, tmp, asleep, obs>>
    /\ UNCHANGED besidesBreaker

BreakerStep(t) ==
    \/ ce_test(t) \/ ce_half(t)
    \/ rs_test(t) \/ rs_close(t) \/ rs_reset(t)
    \/ rf_read(t) \/ rf_write(t) \/ rf_stamp(t) \/ rf_test(t) \/ rf_open(t)

\* direct calls of the breaker's methods
can_execute(t) ==
    /\ Begin(t, "can_execute", "ce_test")
    /\ UNCHANGED <<breakerVars, streak, tmp, asleep, obs, trial>>
    /\ UNCHANGED besidesBreaker

record_success(t) ==
    /\ Begin(t, "record_success", "rs_test")
    /\ UNCHANGED <<breakerVars, streak, tmp, asleep, obs, trial>>
    /\ UNCHANGED besidesBreaker

record_failure(t) ==
    /\ failure_count < MaxFailures
    /\ streak < MaxFailures
    /\ Begin(t, "record_failure", "rf_read")
    /\ UNCHANGED <<breakerVars, streak, tmp, asleep, obs, trial>>
    /\ UNCHANGED besidesBreaker

----------------------------------------------------------------------------
(* RateLimiter.wait_if_needed.  The whole body runs under self.lock; the    *)
(* sleep keeps the lock.  Times are whole ticks, so elapsed * (max_requests *)
(* / window_seconds) is computed as a quotient of integers.                *)

Min(a, b) == IF a < b THEN a ELSE b

\* int(elapsed * (self.max_requests / self.window_seconds))
tokens_to_add(elapsed) == (elapsed * max_requests) \div window_seconds

\* variant: the refill without its cap
RefilledUncapped(tok, add) == tok + add

\* min(self.max_requests, self.tokens + tokens_to_add)
Refilled(tok, add) == Min(max_requests, tok + add)

\* variant: a sleep that returns at once
SleepOverAtOnce(t_now, began) == t_now >= began

\* time.sleep(1 / (self.max_requests / self.window_seconds)) is over
SleepOver(t_now, began) == (t_now - began) * max_requests >= window_seconds

\* variant: the body entered without waiting for the lock
rl_acquire_unlocked(t) ==
    /\ pc[t] = "rl_acquire"
    /\ lock' = <<t>>
    /\ Goto(t, "rl_refill")
    /\ UNCHANGED <<tokens, last_refill, call, tmp, asleep, returned, obs, trial>>
    /\ UNCHANGED limiterHist
    /\ UNCHANGED besidesLimiter

\* with self.lock:
rl_acquire(t) ==
    /\ pc[t] = "rl_acquire"
    /\ lock = Unlocked
    /\ lock' = <<t>>
    /\ Goto(t, "rl_refill")
    /\ UNCHANGED <<tokens, last_refill, call, tmp, asleep, returned, obs, trial>>
    /\ UNCHANGED limiterHist
    /\ UNCHANGED besidesLimiter

\* the refill, and the test of self.tokens <= 0
rl_refill(t) ==
    LET elapsed == now - last_refill
        add == tokens_to_add(elapsed)
        tok == IF add > 0 THEN Refilled(tokens, add) ELSE tokens
    IN  /\ pc[t] = "rl_refill"
        /\ tokens' = tok
        /\ last_refill' = IF add > 0 THEN now ELSE last_refill
        /\ IF tok <= 0
           THEN /\ Goto(t, "rl_sleep")
                /\ asleep' = [asleep EXCEPT ![t] = now]
           ELSE /\ Goto(t, "rl_take")
                /\ UNCHANGED asleep
        /\ entered' = [entered EXCEPT ![t] = now]
        /\ UNCHANGED <<lock, call, tmp, returned, obs, trial>>
        /\ UNCHANGED <<slept, done>>
        /\ UNCHANGED besidesLimiter

\* time.sleep(wait_time) returns; self.tokens = 1
rl_sleep(t) ==
    /\ pc[t] = "rl_sleep"
    /\ SleepOver(now, asleep[t])
    /\ tokens' = 1
    /\ asleep' = [asleep EXCEPT ![t] = -1]
    /\ Goto(t, "rl_take")
    /\ slept' = [slept EXCEPT ![t] = now - asleep[t]]
    /\ UNCHANGED <<last_refill, lock, call, tmp, returned, obs, trial>>
    /\ UNCHANGED <<entered, done>>
    /\ UNCHANGED besidesLimiter

\* self.tokens -= 1, and the lock is released; make_request goes on to the
\* network
rl_take(t) ==
    /\ pc[t] = "rl_take"
    /\ tokens' = tokens - 1
    /\ lock' = Unlocked
    /\ IF call[t] = "wait_if_needed"
       THEN Return(t, "None")
       ELSE Goto(t, "net") /\ UNCHANGED returned
    /\ done' = done + 1
    /\ entered' = [entered EXCEPT ![t] = 0]
    /\ slept' = [slept EXCEPT ![t] = -1]
    /\ UNCHANGED <<last_refill, call, tmp, asleep, obs, trial>>
    /\ UNCHANGED besidesLimiter

LimiterStep(t) == rl_acquire(t) \/ rl_refill(t) \/ rl_sleep(t) \/ rl_take(t)

\* a direct call of wait_if_needed
wait_if_needed(t) ==
    /\ Begin(t, "wait_if_needed", "rl_acquire")
    /\ UNCHANGED <<limiterVars, tmp, asleep, obs, trial>>
    /\ UNCHANGED limiterHist
    /\ UNCHANGED besidesLimiter

----------------------------------------------------------------------------
(* ConnectionPoolManager.make_request, as a worker of make_batch_requests   *)
(* runs it: the breaker's gate, the rate limiter, the network call, the    *)
(* outcome recorded with the breaker.                                      *)

Outcomes == {"ok", "http_error", "exception"}

\* variant: make_request that goes to the rate limiter first
make_request_limiter_first(t) ==
    /\ Begin(t, "make_request", "rl_acquire")
    /\ outcome' = [outcome EXCEPT ![t] = "-"]
    /\ log' = [log EXCEPT ![t] = <<>>]
    /\ UNCHANGED <<tmp, asleep, obs, trial, pool_stats>>
    /\ UNCHANGED besidesRequest

make_request(t) ==
    /\ Begin(t, "make_request", "ce_test")
    /\ outcome' = [outcome EXCEPT ![t] = "-"]
    /\ log' = [log EXCEPT ![t] = <<>>]
    /\ UNCHANGED <<tmp, asleep, obs, trial, pool_stats>>
    /\ UNCHANGED besidesRequest

\* self.session.request(...) answers: a status below 400, a status of 400 or
\* more, or a RequestException; each path goes on to
\* self.pool_stats['requests_total'] += 1
net(t) ==
    /\ pc[t] = "net"
    /\ \E answer \in Outcomes :
          /\ answer # "ok" => failure_count < MaxFailures
          /\ outcome' = [outcome EXCEPT ![t] = answer]
    /\ Goto(t, "total_r")
    /\ UNCHANGED <<call, tmp, asleep, returned, obs, trial, pool_stats, log>>
    /\ UNCHANGED besidesRequest

\* the counters of self.pool_stats that make_request increments
\* (avg_response_time, a float no counter depends on, is left out)
StatFields == {"requests_total", "requests_success", "requests_failed", "connection_errors"}

\* where a thread is when it is about to read, and to write, a counter
PsRead(f) ==
    CASE f = "requests_total" -> "total_r"
      [] f = "requests_success" -> "success_r"
      [] f = "requests_failed" -> "failed_r"
      [] f = "connection_errors" -> "errors_r"

PsWrite(f) ==
    CASE f = "requests_total" -> "total_w"
      [] f = "requests_success" -> "success_w"
      [] f = "requests_failed" -> "failed_w"
      [] f = "connection_errors" -> "errors_w"

\* variant: an except branch that does not count the connection error
AfterStatNoErrors(f, answer) ==
    CASE f = "requests_total" -> IF answer = "ok" THEN "success_r" ELSE "failed_r"
      [] f = "requests_success" -> "rs_test"
      [] f = "requests_failed" -> "rf_read"
      [] f = "connection_errors" -> "rf_read"

\* what follows the increment of a counter: after requests_total the branch
\* on the status (or the next line of the except branch); after
\* requests_success record_success(); after requests_failed record_failure()
\* on the response path and connection_errors on the except path; after
\* connection_errors record_failure()
AfterStat(f, answer) ==
    CASE f = "requests_total" -> IF answer = "ok" THEN "success_r" ELSE "failed_r"
      [] f = "requests_success" -> "rs_test"
      [] f = "requests_failed" -> IF answer = "http_error" THEN "rf_read" ELSE "errors_r"
      [] f = "connection_errors" -> "rf_read"

\* the breaker call that a step to `where` makes, as the log names it
Calls(where) ==
    IF where = "rs_test" THEN <<"record_success">>
    ELSE IF where = "rf_read" THEN <<"record_failure">>
    ELSE <<>>

\* self.pool_stats[f] += 1, the read
ps_read(t, f) ==
    /\ pc[t] = PsRead(f)
    /\ tmp' = [tmp EXCEPT ![t] = pool_stats[f]]
    /\ Goto(t, PsWrite(f))
    /\ UNCHANGED <<call, asleep, returned, obs, trial, requestVars>>
    /\ UNCHANGED besidesRequest

\* self.pool_stats[f] += 1, the write
ps_write(t, f) ==
    /\ pc[t] = PsWrite(f)
    /\ pool_stats' = [pool_stats EXCEPT ![f] = tmp[t] + 1]
    /\ tmp' = [tmp EXCEPT ![t] = 0]
    /\ log' = [log EXCEPT ![t] = log[t] \o <<f>> \o Calls(AfterStat(f, outcome[t]))]
    /\ Goto(t, AfterStat(f, outcome[t]))
    /\ UNCHANGED <<call, asleep, returned, obs, trial, outcome>>
    /\ UNCHANGED besidesRequest

StatStep(t) == \E f \in StatFields : ps_read(t, f) \/ ps_write(t, f)

\* how response.json() ends: the body decodes (or is empty and not decoded);
\* or it raises JSONDecodeError, which is a RequestException in requests
\* 2.27 and later and a plain ValueError before
Decodings == {"decoded", "RequestException", "ValueError"}

\* an upstream whose bodies always decode
WellFormed == {"decoded"}

\* the upstreams and installations: bodies that always decode, or bodies that
\* may fail to decode under either kind of requests
Upstreams == {WellFormed, {"decoded", "RequestException"}, {"decoded", "ValueError"}}

\* the answer of the transport, its body found undecodable
Undecodable(answer) == IF answer = "ok" THEN "ok_undecodable" ELSE "http_error_undecodable"

\* return APIResponse(data=response.json() if response.content else None, ...):
\* the response is returned; or the decoding error is caught by the except
\* branch of make_request, which counts the request again from
\* requests_total on; or it leaves make_request uncaught
response_json(t) ==
    /\ pc[t] = "json"
    /\ \E decoding \in decodings :
          CASE decoding = "decoded" ->
                 /\ Return(t, IF outcome[t] = "ok" THEN "response" ELSE "error_response")
                 /\ UNCHANGED outcome
            [] decoding = "RequestException" ->
                 /\ failure_count < MaxFailures
                 /\ outcome' = [outcome EXCEPT ![t] = Undecodable(outcome[t])]
                 /\ Goto(t, "total_r")
                 /\ UNCHANGED returned
            [] decoding = "ValueError" ->
                 /\ Return(t, "raised")
                 /\ UNCHANGED outcome
    /\ UNCHANGED <<call, tmp, asleep, obs, trial, pool_stats, log>>
    /\ UNCHANGED besidesRequest

----------------------------------------------------------------------------
(* ConnectionPoolManager.make_batch_requests: one future per request       *)
(* configuration, each run by a worker of self.thread_pool; the caller     *)
(* collects them with as_completed(futures, timeout=30).                   *)

\* the batch: one request configuration per worker
Configs == Threads

\* the future of worker t is done: make_request returned or raised
FutureDone(t) == t \notin queued /\ pc[t] = "idle"

\* what the loop body appends for a future: its result, or the placeholder
\* APIResponse(status_code=500, source="error") when result() raised
Collected(r) == IF r \in {"response", "error_response"} THEN r ELSE "placeholder"

\* the futures are submitted and as_completed begins to wait
make_batch_requests ==
    /\ batch # "collecting"
    /\ \A t \in Threads : pc[t] = "idle"
    /\ batch' = "collecting"
    /\ batch_start' = now
    /\ queued' = Configs
    /\ collected' = {}
    /\ results' = <<>>
    /\ UNCHANGED besidesBatch

\* a worker of the pool takes up a queued future and calls make_request
work(t) ==
    /\ t \in queued
    /\ queued' = queued \ {t}
    /\ Begin(t, "make_request", "ce_test")
    /\ outcome' = [outcome EXCEPT ![t] = "-"]
    /\ log' = [log EXCEPT ![t] = <<>>]
    /\ UNCHANGED <<tmp, asleep, obs, trial, pool_stats>>
    /\ UNCHANGED <<batch, batch_start, collected, results>>
    /\ UNCHANGED besidesThreads

\* as_completed yields a finished future and the loop body appends for it
collect(t) ==
    /\ batch = "collecting"
    /\ t \in Configs \ collected
    /\ FutureDone(t)
    /\ collected' = collected \cup {t}
    /\ results' = Append(results, Collected(returned[t]))
    /\ UNCHANGED <<batch, batch_start, queued>>
    /\ UNCHANGED besidesBatch

\* as_completed finds futures still pending when its timeout has passed and
\* raises TimeoutError; the for statement is outside the try, so the
\* exception leaves make_batch_requests
as_completed_timeout ==
    /\ batch = "collecting"
    /\ now - batch_start > batch_timeout
    /\ \E t \in Configs : ~FutureDone(t)
    /\ batch' = "raised"
    /\ UNCHANGED <<batch_start, queued, collected, results>>
    /\ UNCHANGED besidesBatch

\* every future has been yielded: return results
batch_return ==
    /\ batch = "collecting"
    /\ collected = Configs
    /\ batch' = "returned"
    /\ UNCHANGED <<batch_start, queued, collected, results>>
    /\ UNCHANGED besidesBatch

----------------------------------------------------------------------------
(* The clocks *)

\* get in thread t, the block under self.lock: other threads wait for the
\* lock, so the block is one step.  A block that returns ends the call; one
\* that falls through leaves t before the increment of line 227.
get_block(t, key, db_ok) ==
    LET block == get_locked(key, db_ok)
    IN  /\ pc[t] = "idle"
        /\ WithinCap(block.stats)
        /\ memory_cache' = block.mem
        /\ cache_entries' = block.db
        /\ cache_stats' = block.stats
        /\ call' = [call EXCEPT ![t] = "get"]
        /\ IF block.fell
           THEN Goto(t, "misses_r") /\ returned' = [returned EXCEPT ![t] = "-"]
           ELSE Return(t, block.ret)
        /\ UNCHANGED <<last, tmp, asleep, obs, trial>>
        /\ UNCHANGED besidesGets

\* self.cache_stats['misses'] += 1 after the block, the read
misses_read(t) ==
    /\ pc[t] = "misses_r"
    /\ tmp' = [tmp EXCEPT ![t] = cache_stats.misses]
    /\ Goto(t, "misses_w")
    /\ UNCHANGED <<cacheVars, call, asleep, returned, obs, trial>>
    /\ UNCHANGED besidesGets

\* self.cache_stats['misses'] += 1 after the block, the write; return None
misses_write(t) ==
    /\ pc[t] = "misses_w"
    /\ tmp[t] < StatCap
    /\ cache_stats' = [cache_stats EXCEPT !.misses = tmp[t] + 1]
    /\ tmp' = [tmp EXCEPT ![t] = 0]
    /\ Return(t, None)
    /\ UNCHANGED <<memory_cache, cache_entries, last, call, asleep, obs, trial>>
    /\ UNCHANGED besidesGets

Tick ==
    /\ now < MaxTime
    /\ now' = now + 1
    /\ UNCHANGED besidesClock

TickClock ==
    /\ now < MaxClock
    /\ now' = now + 1
    /\ UNCHANGED besidesClock

----------------------------------------------------------------------------
(* Initial state: the objects as their constructors leave them *)

InitCache ==
    /\ memory_cache = Empty
    /\ cache_entries = Empty
    /\ cache_stats = [hits |-> 0, misses |-> 0, memory_hits |-> 0, disk_hits |-> 0,
                      evictions |-> 0]
    /\ last = CacheOp("init", "-", "-", 0, "-", FALSE, FALSE, "-")

InitBreaker ==
    /\ failure_count = 0
    /\ last_failure_time = <<>>
    /\ state = "CLOSED"
    /\ streak = 0

InitLimiter ==
    /\ tokens = max_requests
    /\ last_refill = now
    /\ lock = Unlocked
    /\ entered = [t \in Threads |-> 0]
    /\ slept = [t \in Threads |-> -1]
    /\ done = 0

InitRequests ==
    /\ pool_stats = [f \in StatFields |-> 0]
    /\ outcome = [t \in Threads |-> "-"]
    /\ log = [t \in Threads |-> <<>>]

InitBatch ==
    /\ batch = "idle"
    /\ batch_start = 0
    /\ queued = {}
    /\ collected = {}
    /\ results = <<>>

InitThreads ==
    /\ pc = [t \in Threads |-> "idle"]
    /\ call = [t \in Threads |-> "-"]
    /\ tmp = [t \in Threads |-> 0]
    /\ asleep = [t \in Threads |-> -1]
    /\ returned = [t \in Threads |-> "-"]
    /\ obs = [t \in Threads |-> NoObs]
    /\ trial = [t \in Threads |-> FALSE]

InitObjects ==
    /\ now = 0
    /\ InitCache
    /\ InitBreaker
    /\ InitLimiter
    /\ InitThreads
    /\ InitRequests
    /\ InitBatch

\* the objects new, before an upstream whose bodies decode
Init ==
    /\ InitObjects
    /\ decodings = WellFormed

\* the objects new, before any upstream
InitAnyUpstream ==
    /\ InitObjects
    /\ decodings \in Upstreams

----------------------------------------------------------------------------
(* The cache driven by one caller and the background worker *)

NextCache ==
    \/ \E key \in Keys, value \in Values \cup Unpicklable, ttl \in TTLs, db_ok \in BOOLEAN :
          set(key, value, ttl, db_ok) /\ UNCHANGED besidesCache
    \/ \E key \in Keys, db_ok \in BOOLEAN : get(key, db_ok) /\ UNCHANGED besidesCache
    \/ \E key \in Keys, db_ok \in BOOLEAN : delete(key, db_ok) /\ UNCHANGED besidesCache
    \/ \E db_ok \in BOOLEAN : clear_all(db_ok) /\ UNCHANGED besidesCache
    \/ \E pattern \in Patterns, db_ok \in BOOLEAN : clear(pattern, db_ok) /\ UNCHANGED besidesCache
    \/ \E db_ok \in BOOLEAN : _cleanup_expired_entries(db_ok) /\ UNCHANGED besidesCache
    \/ _optimize_memory_cache /\ UNCHANGED besidesCache
    \/ Tick

SpecCache == Init /\ [][NextCache]_vars

----------------------------------------------------------------------------
(* Threads calling get at once, beside a caller of set *)

NextGets ==
    \/ \E t \in Threads, key \in Keys, db_ok \in BOOLEAN : get_block(t, key, db_ok)
    \/ \E t \in Threads : misses_read(t)
    \/ \E t \in Threads : misses_write(t)
    \/ \E key \in Keys, value \in Values, ttl \in TTLs :
          set(key, value, ttl, TRUE) /\ UNCHANGED besidesCache
    \/ Tick

SpecGets == Init /\ [][NextGets]_vars

----------------------------------------------------------------------------
(* One caller making the breaker's calls one after another *)

Caller == CHOOSE t \in Threads : \A u \in Threads : t <= u

NextBreaker ==
    \/ can_execute(Caller)
    \/ record_success(Caller)
    \/ record_failure(Caller)
    \/ BreakerStep(Caller)
    \/ TickClock

SpecBreaker == Init /\ [][NextBreaker]_vars

----------------------------------------------------------------------------
(* Threads making the breaker's calls at once, in any order: every sequence *)
(* of breaker calls that concurrent make_request calls can produce         *)

NextBreakers ==
    \/ \E t \in Threads : can_execute(t)
    \/ \E t \in Threads : record_success(t)
    \/ \E t \in Threads : record_failure(t)
    \/ \E t \in Threads : BreakerStep(t)
    \/ TickClock

SpecBreakers == Init /\ [][NextBreakers]_vars

----------------------------------------------------------------------------
(* Threads calling wait_if_needed at once *)

NextLimiter ==
    \/ \E t \in Threads : wait_if_needed(t)
    \/ \E t \in Threads : LimiterStep(t)
    \/ TickClock

SpecLimiter == Init /\ [][NextLimiter]_vars

----------------------------------------------------------------------------
(* The workers of make_batch_requests running make_request at once *)

NextPool ==
    \/ \E t \in Threads : make_request(t)
    \/ \E t \in Threads : BreakerStep(t)
    \/ \E t \in Threads : LimiterStep(t)
    \/ \E t \in Threads : net(t)
    \/ \E t \in Threads : StatStep(t)
    \/ \E t \in Threads : response_json(t)
    \/ TickClock

SpecPool == Init /\ [][NextPool]_vars

----------------------------------------------------------------------------
(* One caller making make_request calls one after another, before any       *)
(* upstream                                                                *)

NextRequests ==
    \/ make_request(Caller)
    \/ BreakerStep(Caller)
    \/ LimiterStep(Caller)
    \/ net(Caller)
    \/ StatStep(Caller)
    \/ response_json(Caller)
    \/ TickClock

SpecRequests == InitAnyUpstream /\ [][NextRequests]_vars

----------------------------------------------------------------------------
(* make_batch_requests called time after time, its workers running at once *)

NextBatch ==
    \/ make_batch_requests
    \/ \E t \in Threads : work(t)
    \/ \E t \in Threads : BreakerStep(t)
    \/ \E t \in Threads : LimiterStep(t)
    \/ \E t \in Threads : net(t)
    \/ \E t \in Threads : StatStep(t)
    \/ \E t \in Threads : response_json(t)
    \/ \E t \in Threads : collect(t)
    \/ as_completed_timeout
    \/ batch_return
    \/ TickClock

SpecBatch == Init /\ [][NextBatch]_vars

----------------------------------------------------------------------------
(* Properties *)

\* C1: cache round-trip.  A get(k) that immediately follows a successful
\* set(k, v, ttl), before the entry's expiry, returns exactly v.
RoundTrip ==
    (last.op = "get" /\ last.follows # "-") => last.ret = last.follows

\* C2: cache expiry.  Once the expires_at written by the most recent
\* successful set of k has passed, get(k) returns None.
ExpiredIsAbsent ==
    (last.op = "get" /\ last.stale) => last.ret = None

\* C3: circuit breaker trip.  From CLOSED with failure_count = 0, after fewer
\* than failure_threshold consecutive record_failure calls the state is still
\* CLOSED; after exactly failure_threshold of them it is OPEN, and can_execute
\* returns false while reset_timeout has not elapsed since the last failure.
TripsAtThreshold ==
    pc[Caller] = "idle" =>
        /\ (streak >= 0 /\ streak < failure_threshold) => state = "CLOSED"
        /\ streak = failure_threshold => state = "OPEN"
        /\ (/\ streak = failure_threshold
            /\ call[Caller] = "can_execute"
            /\ ~obs[Caller].due) => returned[Caller] = "False"

TrippedAndRefused ==
    /\ pc[Caller] = "idle"
    /\ streak = failure_threshold
    /\ call[Caller] = "can_execute"
    /\ ~obs[Caller].due
    /\ returned[Caller] = "False"
    /\ state = "OPEN"

\* C4: circuit breaker recovery.  A can_execute that finds the breaker OPEN
\* with more than reset_timeout elapsed since last_failure_time returns true
\* and leaves the state HALF_OPEN.
RecoversAfterTimeout ==
    (/\ pc[Caller] = "idle"
     /\ call[Caller] = "can_execute"
     /\ obs[Caller].state = "OPEN"
     /\ obs[Caller].due) => (returned[Caller] = "True" /\ state = "HALF_OPEN")

RecoveredToHalfOpen ==
    /\ pc[Caller] = "idle"
    /\ call[Caller] = "can_execute"
    /\ obs[Caller].state = "OPEN"
    /\ obs[Caller].due
    /\ returned[Caller] = "True"
    /\ state = "HALF_OPEN"

\* C5: single trial in HALF_OPEN.  At most one request admitted on the
\* HALF_OPEN path is in flight (its outcome not yet recorded) at any time.
SingleTrial ==
    Cardinality({t \in Threads : trial[t]}) <= 1

\* C6: record_success leaves failure_count = 0, and when it found the breaker
\* HALF_OPEN it leaves the state CLOSED.
SuccessResets ==
    (pc[Caller] = "idle" /\ call[Caller] = "record_success") =>
        /\ failure_count = 0
        /\ obs[Caller].state = "HALF_OPEN" => state = "CLOSED"

SuccessClosedHalfOpen ==
    /\ pc[Caller] = "idle"
    /\ call[Caller] = "record_success"
    /\ obs[Caller].state = "HALF_OPEN"
    /\ state = "CLOSED"
    /\ failure_count = 0

\* C7: breaker invariant.  In every reachable state, state = OPEN implies
\* failure_count >= failure_threshold.
OpenImpliesThreshold ==
    state = "OPEN" => failure_count >= failure_threshold

\* C8: the breaker enters HALF_OPEN only from OPEN and only when more than
\* reset_timeout has elapsed since last_failure_time.
HalfOpenOnlyAfterTimeout ==
    [][(state' = "HALF_OPEN" /\ state # "HALF_OPEN") =>
          /\ state = "OPEN"
          /\ last_failure_time # <<>>
          /\ now - last_failure_time[1] > reset_timeout]_vars

\* C9: a failure recorded while the breaker is HALF_OPEN returns it to OPEN:
\* a record_failure that found the breaker HALF_OPEN, and finds it HALF_OPEN
\* still at its threshold test, goes on to set the state to OPEN.
HalfOpenFailureReopens ==
    [][\A t \in Threads :
          (/\ pc[t] = "rf_test"
           /\ pc'[t] # "rf_test"
           /\ obs[t].state = "HALF_OPEN"
           /\ state = "HALF_OPEN") => pc'[t] = "rf_open"]_vars

\* C10: rate limiter bounds.  Whatever the callers of wait_if_needed and the
\* times between their calls, 0 <= tokens <= max_requests.
TokensWithinBounds ==
    0 <= tokens /\ tokens <= max_requests

SleeperAtZero ==
    /\ tokens = 0
    /\ \E t \in Threads : pc[t] = "rl_sleep"
    /\ \E t \in Threads : pc[t] = "rl_acquire"

RateCap ==
    done * window_seconds <= max_requests * window_seconds + now * max_requests

\* C14: storage errors are not propagated.  A set that met an I/O or
\* serialization error returned False, and a get that met one returned None.
StorageErrorsSwallowed ==
    last.err # "-" =>
        /\ last.op = "set" => last.ret = "False"
        /\ last.op = "get" => last.ret = None

GetSwallowedError ==
    /\ last.op = "get"
    /\ last.err = "serialization"
    /\ last.ret = None

RemovedIsAbsent ==
    (last.op = "get" /\ last.removed) => last.ret = None

\* the entries of a tier that a sweep at time t is to remove
Swept(tier, t) ==
    {d \in DOMAIN tier : tier[d].expires_at > 0 /\ tier[d].expires_at < t}

\* a tier after a sweep at time t that removed those and kept the others
SweptFrom(before, after, t) ==
    /\ DOMAIN after = DOMAIN before \ Swept(before, t)
    /\ \A d \in DOMAIN after : after[d] = before[d]

Sent == done - Cardinality({t \in Threads : pc[t] = "net"})

\* C12: fail-fast.  A make_request that finds the breaker OPEN before
\* reset_timeout has elapsed never reaches the transport and raises the
\* circuit-open error; when it follows failure_threshold failing calls in a
\* row, each a transport error, and no call has succeeded, the transport has
\* been invoked exactly failure_threshold times.
FailFast ==
    LET t == Caller
        refused == obs[t].state = "OPEN" /\ ~obs[t].due
    IN  /\ (call[t] = "make_request" /\ pc[t] \in {"rl_acquire", "rl_refill", "rl_sleep", "rl_take", "net"})
              => ~refused
        /\ (call[t] = "make_request" /\ pc[t] = "idle" /\ outcome[t] = "-" /\ refused)
              => returned[t] = "circuit_open"
        /\ (pc[t] = "idle" /\ returned[t] = "circuit_open" /\ streak = failure_threshold
               /\ pool_stats.requests_success = 0
               /\ pool_stats.connection_errors = pool_stats.requests_failed)
              => Sent = failure_threshold

FailedFast ==
    /\ pc[Caller] = "idle"
    /\ returned[Caller] = "circuit_open"
    /\ streak = failure_threshold
    /\ pool_stats.requests_success = 0
    /\ pool_stats.connection_errors = failure_threshold
    /\ pool_stats.requests_failed = failure_threshold
    /\ Sent = failure_threshold

\* C13: transport errors.  A make_request whose network call raised has,
\* when it ends, incremented requests_total, requests_failed and
\* connection_errors, called record_failure() once and nothing else, and
\* raised the exception to its caller.
TransportErrorRecorded ==
    LET t == Caller
    IN  (call[t] = "make_request" /\ pc[t] = "idle" /\ outcome[t] = "exception") =>
            /\ returned[t] = "raised"
            /\ log[t] = <<"requests_total", "requests_failed", "connection_errors",
                          "record_failure">>
            /\ pool_stats.connection_errors >= 1
            /\ pool_stats.requests_failed >= pool_stats.connection_errors

TransportErrorRaised ==
    /\ call[Caller] = "make_request"
    /\ pc[Caller] = "idle"
    /\ outcome[Caller] = "exception"
    /\ returned[Caller] = "raised"
    /\ pool_stats.connection_errors = 2
    /\ state = "OPEN"

\* C18: the request counters never decrease.
StatsMonotone ==
    [][\A f \in StatFields : pool_stats'[f] >= pool_stats[f]]_vars

\* C19: a batch call that has ended returned, with one result or placeholder
\* for each request configuration.
BatchComplete ==
    batch \in {"returned", "raised"} =>
        /\ batch = "returned"
        /\ Len(results) = Cardinality(Configs)

\* a record_failure has written failure_count and not yet tested it, or a
\* record_success has written CLOSED and not yet reset failure_count
MidRecord(t) == pc[t] \in {"rf_stamp", "rf_test", "rf_open", "rs_reset"}

NoLostFailure ==
    (/\ pool_stats.requests_success = 0
     /\ streak >= 0
     /\ \A t \in Threads : pc[t] \notin {"rf_write", "rf_stamp", "rf_test", "rf_open"}) =>
        /\ failure_count = streak
        /\ streak >= failure_threshold => state # "CLOSED"

\* the threads inside the body of wait_if_needed
InBody == {t \in Threads : pc[t] \in {"rl_refill", "rl_sleep", "rl_take"}}

\* C23: rate limiter mutual exclusion.  At most one caller is between the
\* refill and the decrement, it holds the lock, and when it is about to
\* decrement there is a token for it: one refilled or left in the bucket if
\* it did not sleep, the one the sleep granted if it did.
OneCallerInBody ==
    /\ Cardinality(InBody) <= 1
    /\ \A t \in InBody : lock = <<t>>
    /\ \A t \in Threads : pc[t] = "rl_take" =>
          /\ tokens >= 1
          /\ slept[t] # -1 => tokens = 1

LastTokenTakenAlone ==
    \E t, u \in Threads :
        /\ pc[t] = "rl_take"
        /\ slept[t] = -1
        /\ tokens = 1
        /\ pc[u] = "rl_acquire"

\* a step of thread t that brings it to `where`
Reaches(t, where) == pc'[t] = where /\ pc[t] # where

\* C22: gate order and rejection frame.  make_request comes to the breaker's
\* test from its entry, to the rate limiter only from the breaker's gate and
\* to the network only from the rate limiter; the steps of a call that the
\* breaker rejects leave the limiter (tokens, last_refill, sleeps, passes),
\* pool_stats, failure_count and last_failure_time as they are.
GateOrderAndFrame ==
    [][\A t \in Threads : call'[t] = "make_request" =>
          /\ Reaches(t, "ce_test") => pc[t] = "idle"
          /\ Reaches(t, "rl_acquire") => pc[t] \in {"ce_test", "ce_half"}
          /\ Reaches(t, "net") => pc[t] = "rl_take"
          /\ (Reaches(t, "ce_test") \/ (Reaches(t, "idle") /\ returned'[t] = "circuit_open")) =>
                UNCHANGED <<tokens, last_refill, asleep, slept, done, pool_stats,
                            failure_count, last_failure_time>>]_vars

RejectedAndUntouched ==
    /\ pc[Caller] = "idle"
    /\ call[Caller] = "make_request"
    /\ returned[Caller] = "circuit_open"
    /\ tokens = 0
    /\ pool_stats.requests_total = max_requests
    /\ failure_count = failure_threshold
    /\ last_failure_time = <<now>>

\* C21: outcome recording.  A make_request to which the transport returned
\* a response has, when it ends, made one breaker call, record_success() for
\* a status below 400 and record_failure() otherwise, and incremented
\* requests_success or requests_failed to match, once.
OutcomeRecordedOnce ==
    \A t \in Threads : (pc[t] = "idle" /\ call[t] = "make_request") =>
        /\ outcome[t] \in {"ok", "ok_undecodable"} =>
              log[t] = <<"requests_total", "requests_success", "record_success">>
        /\ outcome[t] \in {"http_error", "http_error_undecodable"} =>
              log[t] = <<"requests_total", "requests_failed", "record_failure">>

\* C26: request accounting.  Whenever no request is in progress,
\* requests_total is the number of make_request calls that passed the
\* breaker's gate, and requests_total = requests_success + requests_failed.
RequestsAccounted ==
    (\A t \in Threads : pc[t] = "idle") =>
        /\ pool_stats.requests_total = Sent
        /\ pool_stats.requests_total = pool_stats.requests_success + pool_stats.requests_failed

\* C29: a failed set is atomic.  A step in which set returns False leaves
\* the memory tier and the table as they were.
FailedSetChangesNothing ==
    [][(last'.op = "set" /\ last'.ret = "False" /\ now' = now)
          => UNCHANGED <<memory_cache, cache_entries>>]_vars

\* C25: tier coherence.  A key held by both tiers has in memory the value
\* and the expires_at of its row in the table.
TiersCoherent ==
    \A cache_key \in DOMAIN memory_cache \cap DOMAIN cache_entries :
        LET row == cache_entries[cache_key]
            value == pickle_loads(_decompress_data(row.data, row.compressed))
        IN  /\ value # Raises
            /\ memory_cache[cache_key].data = value.obj
            /\ memory_cache[cache_key].expires_at = row.expires_at

EveryGetCounted ==
    [][/\ \A t \in Threads : (pc[t] = "misses_w" /\ Reaches(t, "idle")) =>
             /\ cache_stats'.misses = cache_stats.misses + 1
             /\ cache_stats'.hits = cache_stats.hits
       /\ cache_stats'.hits + cache_stats'.misses - (cache_stats.hits + cache_stats.misses)
             \in {0, 1}
       /\ cache_stats'.hits = cache_stats'.memory_hits + cache_stats'.disk_hits]_vars

====
